---- MODULE Spec2Model ----
(***************************************************************************)
(* Model of the prayer subsystem of SalahWidget.py (class IslamicWidget):  *)
(* update_prayer_times, update_next_prayer, update_countdown, the two      *)
(* QTimers set up by setup_timers, update_data and daily_update.           *)
(*                                                                         *)
(* Time is in milliseconds (the resolution of QDateTime).  A timestamp is  *)
(* the number of milliseconds since 00:00:00.000 of the current local day  *)
(* of the event loop ("day 0"); Rollover re-bases every stored timestamp   *)
(* when the event loop is idle on a later day.  The wall clock only takes  *)
(* the values of a finite grid of instants (GridTod), fine around a prayer *)
(* time and coarse elsewhere.  The program is single threaded: a handler   *)
(* runs to completion (pc returns to "idle") before another one starts,    *)
(* and the clock advances while the handler blocks in requests.get.        *)
(***************************************************************************)
EXTENDS Integers, Sequences, FiniteSets, TLC

\* ---------------------------------------------------------------- bounds
\* A fetch may return at the instant it started or at one of the next
\* MaxFetchJump instants of the grid.
MaxFetchJump == 1
\* From this nesting depth of update_prayer_times on, a fetch takes long
\* enough for the clock to reach the next instant of the grid.
MaxDepth == 2

\* ------------------------------------------------------ program constants
MsPerSec == 1000
SecsPerDay == 24 * 60 * 60
DayMs == SecsPerDay * MsPerSec

PrayerNames == <<"Fajr", "Sunrise", "Dhuhr", "Asr", "Maghrib", "Isha", "Midnight">>
PrayerSet == {PrayerNames[i] : i \in 1..Len(PrayerNames)}
FajrTomorrow == "Fajr (Tomorrow)"

\* -------------------------------------------------------------- Qt helpers
\* QTime.fromString(s, "HH:mm"): the provider's "HH:MM" string, here the
\* pair <<HH, MM>>, as milliseconds since the start of the day.
QTimeFromString(hm) == (hm[1] * 60 + hm[2]) * 60 * MsPerSec

\* QDate.currentDate() for the clock value t (t >= 0 while a handler runs).
QDateOf(t) == t \div DayMs

\* QDateTime(date, time)
QDateTime(date, timeMs) == date * DayMs + timeMs

\* QDateTime.time(): the time of day of a timestamp.
TimeOfDay(t) == t % DayMs

\* QDateTime.secsTo: msecsTo(other) / 1000 in C++, truncating towards zero.
SecsTo(from, to) ==
    LET ms == to - from
    IN  IF ms >= 0 THEN ms \div MsPerSec ELSE -((-ms) \div MsPerSec)

\* QTime.secsTo: both times lose their milliseconds before the subtraction.
QTimeSecsTo(fromMs, toMs) == (toMs \div MsPerSec) - (fromMs \div MsPerSec)

\* addMSecs in the place of addSecs.
AddSecs_Ms(t, s) == t + s

\* QDateTime.addSecs
AddSecs(t, s) == t + s * MsPerSec

\* QDateTime.toString('hh:mm'): hour and minute of the time of day.
ToStringHHmm(t) ==
    LET m == TimeOfDay(t) \div (60 * MsPerSec)
    IN  <<m \div 60, m % 60>>

\* IslamicWidget.time_to_datetime, called when the clock reads t.
time_to_datetime(hm, t) == QDateTime(QDateOf(t), QTimeFromString(hm))

\* ------------------------------------------------- the prayer time provider
Table1 == [Fajr |-> <<5, 0>>, Sunrise |-> <<6, 30>>, Dhuhr |-> <<12, 0>>,
           Asr |-> <<15, 0>>, Maghrib |-> <<18, 0>>, Isha |-> <<20, 0>>,
           Midnight |-> <<23, 30>>]
Tables == {Table1}

\* What requests.get(...).json() can do: raise (transport failure, bad
\* JSON), answer with a code other than 200, or answer 200 with timings.
Responses ==
    {[status |-> "exc", timings |-> Table1],
     [status |-> "non200", timings |-> Table1]}
    \cup {[status |-> "ok", timings |-> t] : t \in Tables}

\* ------------------------------------------------------------ the wall clock
HMS(h, m, s, ms) == ((h * 60 + m) * 60 + s) * MsPerSec + ms
GridTod ==
    {HMS(0, 0, 0, 0), HMS(0, 30, 0, 0), HMS(3, 58, 59, 0),
     HMS(4, 59, 59, 250), HMS(4, 59, 59, 750), HMS(5, 0, 0, 0),
     HMS(20, 0, 0, 0), HMS(21, 0, 0, 0), HMS(23, 59, 50, 0)}
\* The instants at which the widget is started.
InitTimes == {HMS(0, 0, 0, 0), HMS(23, 59, 50, 0)}

SetMin(S) == CHOOSE x \in S : \A y \in S : x <= y

\* The first instant of the grid after t: later on the day of t, or the
\* first one of the next day.
NextInstant(t) ==
    LET later == {g \in GridTod : g > TimeOfDay(t)}
    IN  IF later = {} THEN QDateTime(QDateOf(t) + 1, SetMin(GridTod))
        ELSE QDateTime(QDateOf(t), SetMin(later))

\* The instants within k grid steps of the instants of S (S included).
RECURSIVE InstantsWithin(_, _)
InstantsWithin(S, k) ==
    IF k = 0 THEN S
    ELSE S \cup UNION {InstantsWithin({NextInstant(x)}, k - 1) : x \in S}

\* The instants at which a blocking requests.get started at t can return.
FetchTimes(t, d) ==
    IF d < MaxDepth THEN InstantsWithin({t}, MaxFetchJump)
    ELSE UNION {InstantsWithin({NextInstant(x)}, MaxFetchJump - 1) : x \in {t}}

\* ------------------------------------------------------------- formatting
DigitChars == <<"0", "1", "2", "3", "4", "5", "6", "7", "8", "9">>

RECURSIVE Digits(_)
Digits(n) == IF n < 10 THEN <<DigitChars[n + 1]>>
             ELSE Digits(n \div 10) \o <<DigitChars[(n % 10) + 1]>>

\* f"{n}": no padding.
Fmt02d_NoPad(n) == Digits(n)

\* Python's f"{n:02d}" for n >= 0
Fmt02d(n) == IF n < 10 THEN <<"0">> \o Digits(n) ELSE Digits(n)

\* Lines 455-459: the HH:MM:SS text of a positive number of seconds.
FormatCountdown(r) ==
    LET hours == r \div 3600
        minutes == (r % 3600) \div 60
        seconds == r % 60
    IN  Fmt02d(hours) \o <<":">> \o Fmt02d(minutes) \o <<":">> \o Fmt02d(seconds)

Dashes == <<"-", "-", ":", "-", "-", ":", "-", "-">>
CountdownInitText == <<"Time Remaining: ">> \o Dashes
CountdownText(r) == <<"Time Remaining: ">> \o FormatCountdown(r)

LabelCalculating == "Next Prayer: Calculating..."
LabelApiError == "Prayer API Error: Try again later"
LabelUpdateError == "Error: Could not update prayer times"
LabelTomorrowNon200 == "Could not fetch tomorrow's prayer times"
LabelTomorrowError == "Error fetching tomorrow's prayer times"
LabelNext(name) == "Next: " \o name

\* ------------------------------------------------------------------ state
VARIABLES
    now,               \* QDateTime.currentDateTime()
    pc,                \* where the running handler is; "idle": event loop
    handler,           \* what started the running (or the last) handler
    depth,             \* active frames of update_prayer_times
    loc_tomorrow,      \* the local variable 'tomorrow' of the running frame
    has_prayer_times,  \* hasattr(self, 'prayer_times')
    prayer_times,      \* self.prayer_times
    has_next_prayer,   \* hasattr(self, 'next_prayer_time')
    next_prayer,       \* self.next_prayer
    next_prayer_time,  \* self.next_prayer_time
    next_prayer_label, \* self.next_prayer_label.text()
    countdown_label,   \* self.countdown_label.text()
    prayer_labels,     \* self.prayer_labels: text and highlight per prayer
    daily_interval,    \* interval of self.daily_timer, in milliseconds
    show_hadith,       \* self.config['appearance']['show_hadith']
    verse_result,      \* outcome of update_quran_verse in this update_data
    hadith_result,     \* outcome of update_hadith in this update_data
    refresh_calls,     \* history: update_prayer_times calls of this handler
    last_today,        \* history: outcome of the latest fetch of today's set
    tomorrow_resp,     \* history: answer to this frame's tomorrow fetch
    resolved,          \* history: how and when update_next_prayer stored
    run,               \* history: the answers given to the running refresh
    snap,              \* history: state left by the last completed refresh
    last_tomorrow,     \* history: outcome of the running refresh's fetch of
                       \* tomorrow's Fajr (line 363)
    expiry_refresh     \* history: refreshes that ticks of the countdown
                       \* timer started since NextPrayer was last stored

vars == <<now, pc, handler, depth, loc_tomorrow, has_prayer_times,
          prayer_times, has_next_prayer, next_prayer, next_prayer_time,
          next_prayer_label, countdown_label, prayer_labels, daily_interval,
          show_hadith, verse_result, hadith_result, refresh_calls,
          last_today, tomorrow_resp, resolved, run, snap, last_tomorrow,
          expiry_refresh>>

widgetVars == <<has_prayer_times, prayer_times, has_next_prayer, next_prayer,
                next_prayer_time>>
nextVars == <<has_next_prayer, next_prayer, next_prayer_time>>
labelVars == <<next_prayer_label, countdown_label, prayer_labels>>
dataVars == <<verse_result, hadith_result>>

NoTimes == [p \in PrayerSet |-> 0]
NoLabels == [text |-> [p \in PrayerSet |-> <<>>],
             bold |-> [p \in PrayerSet |-> FALSE]]
NoResolved == [by |-> "none", at |-> 0, fajr |-> <<>>]
NoTomorrow == [status |-> "none", fajr |-> <<0, 0>>]
NoTable == [Fajr |-> <<0, 0>>, Sunrise |-> <<0, 0>>, Dhuhr |-> <<0, 0>>,
            Asr |-> <<0, 0>>, Maghrib |-> <<0, 0>>, Isha |-> <<0, 0>>,
            Midnight |-> <<0, 0>>]
NoRun == [clean |-> FALSE, at |-> 0, today |-> NoTable, tom |-> <<>>]
NoSnap == [valid |-> FALSE, at |-> 0, today |-> NoTable, tom |-> <<>>,
           has_next |-> FALSE, name |-> "", time |-> 0, times |-> NoTimes]

\* setup_timers without lines 261-262.
setup_timers_NoWrap(t) ==
    QTimeSecsTo(TimeOfDay(t), HMS(0, 0, 0, 0)) * 1000

\* setup_timers, lines 255-267: milliseconds to the first daily fire.
setup_timers(t) ==
    LET current_time == TimeOfDay(t)
        target_time == HMS(0, 0, 0, 0)
        secs_until_midnight == QTimeSecsTo(current_time, target_time)
    IN  IF secs_until_midnight < 0
        THEN (secs_until_midnight + 24 * 60 * 60) * 1000
        ELSE secs_until_midnight * 1000

\* State at line 93 of __init__: configuration loaded, widgets built by
\* init_ui, both timers started; update_data is about to be called.
Init ==
    /\ now \in InitTimes
    /\ pc = "update_data"
    /\ handler = "init"
    /\ depth = 0
    /\ loc_tomorrow = 0
    /\ has_prayer_times = FALSE
    /\ prayer_times = NoTimes
    /\ has_next_prayer = FALSE
    /\ next_prayer = ""
    /\ next_prayer_time = 0
    /\ next_prayer_label = LabelCalculating
    /\ countdown_label = CountdownInitText
    /\ prayer_labels = NoLabels
    /\ daily_interval = setup_timers(now)
    /\ show_hadith \in BOOLEAN
    /\ verse_result = "none"
    /\ hadith_result = "none"
    /\ refresh_calls = 0
    /\ last_today = "none"
    /\ tomorrow_resp = NoTomorrow
    /\ resolved = NoResolved
    /\ run = NoRun
    /\ snap = NoSnap
    /\ last_tomorrow = "none"
    /\ expiry_refresh = "none"

histVars == <<refresh_calls, last_today, tomorrow_resp, resolved, run, snap,
              last_tomorrow, expiry_refresh>>

\* ------------------------------------------------------ update_next_prayer
\* Lines 399-406: the loop over self.prayer_times.items(), from entry i on;
\* best is <<next_prayer, next_prayer_time>>, or <<>> for None.
\* The loop with the comparison of line 404 reversed: keeps the latest.
RECURSIVE ScanPrayers_Latest(_, _, _, _)
ScanPrayers_Latest(pt, t, i, best) ==
    IF i > Len(PrayerNames) THEN best
    ELSE LET prayer == PrayerNames[i]
             time == pt[prayer]
         IN  IF time > t /\ (best = <<>> \/ time > best[2])
             THEN ScanPrayers_Latest(pt, t, i + 1, <<prayer, time>>)
             ELSE ScanPrayers_Latest(pt, t, i + 1, best)

\* The loop with "time >= now" at line 403.
RECURSIVE ScanPrayers_NotStrict(_, _, _, _)
ScanPrayers_NotStrict(pt, t, i, best) ==
    IF i > Len(PrayerNames) THEN best
    ELSE LET prayer == PrayerNames[i]
             time == pt[prayer]
         IN  IF time >= t /\ (best = <<>> \/ time < best[2])
             THEN ScanPrayers_NotStrict(pt, t, i + 1, <<prayer, time>>)
             ELSE ScanPrayers_NotStrict(pt, t, i + 1, best)

RECURSIVE ScanPrayers(_, _, _, _)
ScanPrayers(pt, t, i, best) ==
    IF i > Len(PrayerNames) THEN best
    ELSE LET prayer == PrayerNames[i]
             time == pt[prayer]
         IN  IF time > t /\ (best = <<>> \/ time < best[2])
             THEN ScanPrayers(pt, t, i + 1, <<prayer, time>>)
             ELSE ScanPrayers(pt, t, i + 1, best)

\* Lines 396-406 started from the stored next prayer instead of 'now'.
FindNextPrayer_AfterStored(pt, t) ==
    ScanPrayers(pt, IF has_next_prayer /\ next_prayer_time > t
                    THEN next_prayer_time ELSE t, 1, <<>>)

\* Lines 396-406: the next prayer of the set pt when the clock reads t.
FindNextPrayer(pt, t) == ScanPrayers(pt, t, 1, <<>>)

\* Line 431 with today's date, as time_to_datetime would give.
FallbackFajr_Today(tomorrow, fajr) == QDateTime(tomorrow - 1, QTimeFromString(fajr))

\* Lines 429-431: tomorrow's Fajr as a timestamp.
FallbackFajr(tomorrow, fajr) == QDateTime(tomorrow, QTimeFromString(fajr))

\* ---------------------------------------------------- update_prayer_times
\* The midpoint without line 368: tomorrow's Fajr keeps today's date.
MidpointMidnight_Today(isha_time, tomorrow, fajr) ==
    LET tomorrow_fajr == QDateTime(tomorrow - 1, QTimeFromString(fajr))
        seconds_between == SecsTo(isha_time, tomorrow_fajr)
        midnight_seconds == seconds_between \div 2
    IN  AddSecs(isha_time, midnight_seconds)

\* Lines 371-373: Midnight as the midpoint of Isha and tomorrow's Fajr.
MidpointMidnight(isha_time, tomorrow, fajr) ==
    LET tomorrow_fajr == QDateTime(tomorrow, QTimeFromString(fajr))
        seconds_between == SecsTo(isha_time, tomorrow_fajr)
        midnight_seconds == seconds_between \div 2
    IN  AddSecs(isha_time, midnight_seconds)

\* Lines 594-606: the labels after update_prayer_displays, and whether the
\* read of self.next_prayer raised AttributeError (after the first setText).
update_prayer_displays ==
    IF has_next_prayer
    THEN [labels |-> [text |-> [p \in PrayerSet |-> ToStringHHmm(prayer_times[p])],
                      bold |-> [p \in PrayerSet |-> p = next_prayer]],
          raised |-> FALSE]
    ELSE [labels |-> [prayer_labels EXCEPT
                        !.text["Fajr"] = ToStringHHmm(prayer_times["Fajr"])],
          raised |-> TRUE]

\* A call of update_prayer_times (line 324) from update_data or from
\* update_countdown.
EnterRefresh(calls) ==
    /\ pc' = "upt"
    /\ depth' = depth + 1
    /\ loc_tomorrow' = 0
    /\ refresh_calls' = calls + 1
    /\ tomorrow_resp' = NoTomorrow
    /\ run' = IF depth = 0 THEN [clean |-> TRUE, at |-> now, today |-> NoTable,
                                 tom |-> <<>>]
              ELSE NoRun

\* The event loop takes up a handler: nothing is left of the previous one.
StartHandler(h) ==
    /\ pc = "idle"
    /\ now < DayMs
    /\ handler' = h

\* The running handler returns to the event loop.
ToIdle ==
    /\ pc' = "idle"
    /\ handler' = "none"
    /\ depth' = 0
    /\ loc_tomorrow' = 0
    /\ refresh_calls' = 0

\* update_prayer_times without its except clause: the exception ends the
\* handler.
ExceptUpdatePrayerTimes_Propagate ==
    /\ pc' = "idle"
    /\ UNCHANGED <<next_prayer_label, countdown_label>>

\* Lines 383-386: the except clause of update_prayer_times.
ExceptUpdatePrayerTimes ==
    /\ next_prayer_label' = LabelUpdateError
    /\ countdown_label' = Dashes
    /\ pc' = "upt_return"

\* Lines 326-358: the fetch of today's set and what follows its answer.
upt_FetchToday ==
    /\ pc = "upt"
    /\ \E t \in FetchTimes(now, depth), r \in Responses :
        /\ now' = t
        /\ last_today' = r.status
        /\ last_tomorrow' = "none"
        /\ CASE r.status = "ok" ->
                /\ has_prayer_times' = TRUE
                /\ prayer_times' =
                     [p \in PrayerSet |-> time_to_datetime(r.timings[p], t)]
                /\ loc_tomorrow' = QDateOf(t) + 1
                /\ pc' = "upt_tomorrow"
                /\ run' = IF run.clean /\ t = now
                          THEN [run EXCEPT !.today = r.timings] ELSE NoRun
                /\ UNCHANGED <<next_prayer_label, countdown_label>>
             [] r.status = "non200" ->
                /\ next_prayer_label' = LabelApiError
                /\ countdown_label' = Dashes
                /\ pc' = "upt_return"
                /\ run' = NoRun
                /\ UNCHANGED <<has_prayer_times, prayer_times, loc_tomorrow>>
             [] r.status = "exc" ->
                /\ ExceptUpdatePrayerTimes
                /\ run' = NoRun
                /\ UNCHANGED <<has_prayer_times, prayer_times, loc_tomorrow>>
    /\ UNCHANGED <<handler, depth, nextVars, prayer_labels, daily_interval,
                   show_hadith, dataVars, refresh_calls, tomorrow_resp,
                   resolved, snap, expiry_refresh>>

\* Lines 396-412 and, when the loop found a prayer, 441-445:
\* update_next_prayer up to its call of update_countdown or to its fetch,
\* for the set pt when the clock reads t.
unp_Resolve(pt, t) ==
    LET best == FindNextPrayer(pt, t)
    IN  IF best # <<>>
        THEN /\ has_next_prayer' = TRUE
             /\ next_prayer' = best[1]
             /\ next_prayer_time' = best[2]
             /\ next_prayer_label' = LabelNext(best[1])
             /\ resolved' = [by |-> "scan", at |-> t, fajr |-> <<>>]
             /\ expiry_refresh' = "none"
             /\ pc' = "ucd"
             /\ UNCHANGED loc_tomorrow
        ELSE /\ loc_tomorrow' = QDateOf(t) + 1
             /\ resolved' = [by |-> "none", at |-> t, fajr |-> <<>>]
             /\ pc' = "unp_fallback"
             /\ UNCHANGED <<nextVars, next_prayer_label, expiry_refresh>>

\* Lines 361-376: the fetch of tomorrow's Fajr, the Midnight midpoint and
\* the call of update_next_prayer.
upt_FetchTomorrow ==
    /\ pc = "upt_tomorrow"
    /\ \E t \in FetchTimes(now, depth), r \in Responses :
        /\ now' = t
        /\ last_tomorrow' = r.status
        /\ CASE r.status = "ok" ->
                /\ prayer_times' =
                     [prayer_times EXCEPT !["Midnight"] =
                        MidpointMidnight(prayer_times["Isha"], loc_tomorrow,
                                         r.timings["Fajr"])]
                /\ tomorrow_resp' = [status |-> "ok", fajr |-> r.timings["Fajr"]]
                /\ run' = IF run.clean /\ t = now
                          THEN [run EXCEPT !.tom = r.timings["Fajr"]] ELSE NoRun
                /\ unp_Resolve(prayer_times', t)
                /\ UNCHANGED countdown_label
             [] r.status = "non200" ->
                /\ tomorrow_resp' = [status |-> "non200", fajr |-> <<0, 0>>]
                /\ run' = NoRun
                /\ unp_Resolve(prayer_times, t)
                /\ UNCHANGED <<prayer_times, countdown_label>>
             [] r.status = "exc" ->
                /\ ExceptUpdatePrayerTimes
                /\ tomorrow_resp' = NoTomorrow
                /\ run' = NoRun
                /\ UNCHANGED <<prayer_times, loc_tomorrow, nextVars, resolved,
                               expiry_refresh>>
    /\ UNCHANGED <<handler, depth, has_prayer_times, prayer_labels,
                   daily_interval, show_hadith, dataVars, refresh_calls,
                   last_today, snap>>

\* Lines 415-445: the fetch of tomorrow's Fajr when no prayer of today's
\* set is still to come.
unp_FetchFallback ==
    /\ pc = "unp_fallback"
    /\ \E t \in FetchTimes(now, depth), r \in Responses :
        /\ now' = t
        /\ CASE r.status = "ok" ->
                /\ has_next_prayer' = TRUE
                /\ next_prayer' = FajrTomorrow
                /\ next_prayer_time' = FallbackFajr(loc_tomorrow, r.timings["Fajr"])
                /\ next_prayer_label' = LabelNext(FajrTomorrow)
                /\ resolved' = [by |-> "fallback", at |-> resolved.at,
                                fajr |-> r.timings["Fajr"]]
                /\ expiry_refresh' = "none"
                /\ pc' = "ucd"
                /\ run' = IF run.clean /\ t = now /\ r.timings["Fajr"] = run.tom
                          THEN run ELSE NoRun
             [] r.status = "non200" ->
                /\ next_prayer_label' = LabelTomorrowNon200
                /\ resolved' = NoResolved
                /\ pc' = "upt_display"
                /\ run' = NoRun
                /\ UNCHANGED <<nextVars, expiry_refresh>>
             [] r.status = "exc" ->
                /\ next_prayer_label' = LabelTomorrowError
                /\ resolved' = NoResolved
                /\ pc' = "upt_display"
                /\ run' = NoRun
                /\ UNCHANGED <<nextVars, expiry_refresh>>
    /\ tomorrow_resp' = NoTomorrow
    /\ UNCHANGED <<handler, depth, loc_tomorrow, has_prayer_times,
                   prayer_times, countdown_label, prayer_labels,
                   daily_interval, show_hadith, dataVars, refresh_calls,
                   last_today, snap, last_tomorrow>>

\* Lines 448-463: update_countdown, as the slot of the countdown timer
\* (top) or called from update_next_prayer, line 446.
update_countdown(top) ==
    LET seconds_remaining == SecsTo(now, next_prayer_time)
        calls == IF top THEN 0 ELSE refresh_calls
    IN  IF has_next_prayer /\ seconds_remaining <= 0
        THEN /\ EnterRefresh(calls)
             /\ handler' = IF top THEN "tick" ELSE handler
             /\ expiry_refresh' = IF ~top THEN expiry_refresh
                                  ELSE IF expiry_refresh = "none" THEN "once"
                                  ELSE "again"
             /\ UNCHANGED countdown_label
        ELSE /\ countdown_label' = IF has_next_prayer
                                   THEN CountdownText(seconds_remaining)
                                   ELSE countdown_label
             /\ IF top THEN ToIdle
                ELSE /\ pc' = "upt_display"
                     /\ UNCHANGED <<handler, depth, loc_tomorrow, refresh_calls>>
             /\ tomorrow_resp' = NoTomorrow
             /\ UNCHANGED <<run, expiry_refresh>>

\* The countdown timer fires (lines 251-253).
CountdownTick ==
    /\ pc = "idle"
    /\ now < DayMs
    /\ update_countdown(TRUE)
    /\ UNCHANGED <<now, widgetVars, next_prayer_label, prayer_labels,
                   daily_interval, show_hadith, dataVars, last_today,
                   resolved, snap, last_tomorrow>>

\* Line 446: update_next_prayer ends with update_countdown.
ucd_Nested ==
    /\ pc = "ucd"
    /\ update_countdown(FALSE)
    /\ resolved' = NoResolved
    /\ UNCHANGED <<now, widgetVars, next_prayer_label, prayer_labels,
                   daily_interval, show_hadith, dataVars, last_today, snap,
                   last_tomorrow>>

\* Line 378, inside the try of update_prayer_times.
upt_Display ==
    /\ pc = "upt_display"
    /\ LET d == update_prayer_displays
       IN  /\ prayer_labels' = d.labels
           /\ IF d.raised THEN ExceptUpdatePrayerTimes
              ELSE pc' = "upt_return"
                   /\ UNCHANGED <<next_prayer_label, countdown_label>>
    /\ UNCHANGED <<now, handler, depth, loc_tomorrow, widgetVars,
                   daily_interval, show_hadith, dataVars, histVars>>

\* update_prayer_times returns: to update_data (line 312), to the event
\* loop through the timer's update_countdown, or through update_countdown
\* and update_next_prayer into the calling update_prayer_times (line 378).
upt_Return ==
    /\ pc = "upt_return"
    /\ IF depth > 1
       THEN /\ pc' = "upt_display"
            /\ depth' = depth - 1
            /\ UNCHANGED <<loc_tomorrow, snap>>
       ELSE /\ IF handler = "tick" THEN ToIdle
               ELSE /\ pc' = "verse"
                    /\ depth' = 0
                    /\ loc_tomorrow' = 0
                    /\ UNCHANGED <<handler, refresh_calls>>
            /\ snap' = IF run.clean
                       THEN [valid |-> TRUE, at |-> now, today |-> run.today,
                             tom |-> run.tom, has_next |-> has_next_prayer,
                             name |-> next_prayer, time |-> next_prayer_time,
                             times |-> prayer_times]
                       ELSE NoSnap
    /\ IF depth > 1 THEN UNCHANGED <<handler, refresh_calls>> ELSE TRUE
    /\ run' = NoRun
    /\ last_tomorrow' = "none"
    /\ UNCHANGED <<now, widgetVars, labelVars, daily_interval,
                   show_hadith, dataVars, last_today, tomorrow_resp, resolved,
                   expiry_refresh>>

\* ------------------------------------------------------------- update_data
\* Line 93 and lines 309-311: __init__ calls update_data, which calls
\* update_prayer_times first.
update_data ==
    /\ pc = "update_data"
    /\ EnterRefresh(0)
    /\ UNCHANGED <<now, handler, widgetVars, labelVars, daily_interval,
                   show_hadith, dataVars, last_today, resolved, snap,
                   last_tomorrow, expiry_refresh>>

\* What a verse or hadith fetch can do: show the text, or show the
\* placeholder of an API error or of the except clause.
FetchOutcomes == {"ok", "failed"}

\* Lines 312-314 and 465-503: update_quran_verse, which catches what its
\* fetches raise; then the test of show_hadith.  Nothing reads the clock
\* after update_prayer_times has returned: the time these fetches take is
\* left to ClockAdvance.
update_quran_verse ==
    /\ pc = "verse"
    /\ \E r \in FetchOutcomes : verse_result' = r
    /\ pc' = IF show_hadith THEN "hadith" ELSE "done"
    /\ UNCHANGED <<now, handler, depth, loc_tomorrow, widgetVars, labelVars,
                   daily_interval, show_hadith, hadith_result, histVars>>

\* Lines 315 and 505-528: update_hadith.
update_hadith ==
    /\ pc = "hadith"
    /\ \E r \in FetchOutcomes : hadith_result' = r
    /\ pc' = "done"
    /\ UNCHANGED <<now, handler, depth, loc_tomorrow, widgetVars, labelVars,
                   daily_interval, show_hadith, verse_result, histVars>>

\* update_data returns: to daily_update, which re-arms the daily timer
\* (line 322), or to __init__ or the Refresh button, and then to the
\* event loop.
update_data_Return ==
    /\ pc = "done"
    /\ daily_interval' = IF handler = "daily" THEN 24 * 60 * 60 * 1000
                         ELSE daily_interval
    /\ verse_result' = "none"
    /\ hadith_result' = "none"
    /\ ToIdle
    /\ UNCHANGED <<now, widgetVars, labelVars, show_hadith, last_today,
                   tomorrow_resp, resolved, run, snap, last_tomorrow,
                   expiry_refresh>>

\* The daily timer as a single-shot timer that daily_update does not start
\* again.
daily_update_SingleShot ==
    /\ daily_interval # 24 * 60 * 60 * 1000
    /\ StartHandler("daily")
    /\ EnterRefresh(0)
    /\ UNCHANGED <<now, widgetVars, labelVars, daily_interval, show_hadith,
                   dataVars, last_today, resolved, snap, last_tomorrow,
                   expiry_refresh>>

\* The daily timer fires: daily_update, lines 317-319, calls update_data,
\* which calls update_prayer_times (lines 309-311).
daily_update ==
    /\ StartHandler("daily")
    /\ EnterRefresh(0)
    /\ UNCHANGED <<now, widgetVars, labelVars, daily_interval, show_hadith,
                   dataVars, last_today, resolved, snap, last_tomorrow,
                   expiry_refresh>>

\* The Refresh button or the tray's "Refresh Data" (lines 233, 284), or
\* an accepted settings dialog (line 537).
ManualRefresh ==
    /\ StartHandler("manual")
    /\ EnterRefresh(0)
    /\ UNCHANGED <<now, widgetVars, labelVars, daily_interval, show_hadith,
                   dataVars, last_today, resolved, snap, last_tomorrow,
                   expiry_refresh>>

\* ---------------------------------------------------------- the wall clock
\* Time passes while the event loop is idle.
ClockAdvance ==
    /\ pc = "idle"
    /\ now < DayMs
    /\ now' = NextInstant(now)
    /\ snap' = NoSnap
    /\ UNCHANGED <<pc, handler, depth, loc_tomorrow, widgetVars, labelVars,
                   daily_interval, show_hadith, dataVars, refresh_calls,
                   last_today, tomorrow_resp, resolved, run, last_tomorrow,
                   expiry_refresh>>

\* A timestamp of an earlier day stays one; the others become a day older.
ShiftBack(v) == IF v < 0 THEN v ELSE v - DayMs

\* The event loop is idle on a later day than day 0: that day becomes day 0.
Rollover ==
    /\ pc = "idle"
    /\ now >= DayMs
    /\ now' = now - DayMs
    /\ prayer_times' = IF has_prayer_times
                       THEN [p \in PrayerSet |-> ShiftBack(prayer_times[p])]
                       ELSE prayer_times
    /\ next_prayer_time' = IF has_next_prayer THEN ShiftBack(next_prayer_time)
                           ELSE next_prayer_time
    /\ snap' = NoSnap
    /\ UNCHANGED <<pc, handler, depth, loc_tomorrow, has_prayer_times,
                   has_next_prayer, next_prayer, labelVars, daily_interval,
                   show_hadith, dataVars, refresh_calls, last_today,
                   tomorrow_resp, resolved, run, last_tomorrow,
                   expiry_refresh>>

Next ==
    \/ CountdownTick
    \/ daily_update
    \/ ManualRefresh
    \/ update_data
    \/ upt_FetchToday
    \/ upt_FetchTomorrow
    \/ unp_FetchFallback
    \/ ucd_Nested
    \/ upt_Display
    \/ upt_Return
    \/ update_quran_verse
    \/ update_hadith
    \/ update_data_Return
    \/ ClockAdvance
    \/ Rollover

Spec == Init /\ [][Next]_vars

\* A running handler goes on: every call returns, every fetch is answered.
HandlerStep ==
    \/ update_data
    \/ upt_FetchToday
    \/ upt_FetchTomorrow
    \/ unp_FetchFallback
    \/ ucd_Nested
    \/ upt_Display
    \/ upt_Return
    \/ update_quran_verse
    \/ update_hadith
    \/ update_data_Return

\* The event loop runs the slot of a timer that is due: the daily timer,
\* which is never stopped, fires again and again.
LiveInit == Init /\ now = HMS(23, 59, 50, 0) /\ show_hadith

LiveSpec ==
    /\ LiveInit
    /\ [][Next]_vars
    /\ WF_vars(HandlerStep)
    /\ WF_vars(Rollover)
    /\ SF_vars(daily_update)

TypeOK ==
    /\ pc \in {"idle", "update_data", "upt", "upt_tomorrow",
               "unp_fallback", "ucd", "upt_display", "upt_return", "verse",
               "hadith", "done"}
    /\ handler \in {"none", "init", "tick", "daily", "manual"}
    /\ depth \in Nat
    /\ now \in Nat
    /\ TimeOfDay(now) \in GridTod
    /\ has_next_prayer \in BOOLEAN
    /\ next_prayer \in PrayerSet \cup {FajrTomorrow, ""}
    /\ last_tomorrow \in {"none", "ok", "non200", "exc"}
    /\ expiry_refresh \in {"none", "once", "again"}

\* ------------------------------------------------------------------ claims
\* The seven stored timestamps are pairwise distinct.
DistinctTimes ==
    \A p, q \in PrayerSet : p # q => prayer_times[p] # prayer_times[q]

\* Every stored timestamp is at or before t.
AllPassed(t) == \A p \in PrayerSet : prayer_times[p] <= t

\* update_next_prayer has just left its loop or its fallback fetch.
JustResolved == pc \in {"ucd", "unp_fallback"}

\* C1: when the seven stored timestamps are distinct and 'now' is strictly
\* before the latest of them, update_next_prayer stores the name and the
\* timestamp of the entry with the smallest timestamp strictly after 'now'.
C1_EarliestUpcoming ==
    (JustResolved /\ DistinctTimes /\ ~AllPassed(resolved.at)) =>
        /\ pc = "ucd"
        /\ resolved.by = "scan"
        /\ has_next_prayer
        /\ next_prayer \in PrayerSet
        /\ next_prayer_time = prayer_times[next_prayer]
        /\ next_prayer_time > resolved.at
        /\ \A q \in PrayerSet :
              prayer_times[q] > resolved.at => next_prayer_time <= prayer_times[q]

C1_Witness ==
    /\ pc = "ucd"
    /\ resolved.by = "scan"
    /\ DistinctTimes
    /\ next_prayer = "Sunrise"
    /\ prayer_times["Fajr"] <= resolved.at
    /\ prayer_times["Midnight"] > resolved.at

\* C2 as stated: whenever update_next_prayer has stored a NextPrayer for a
\* 'now' at or after today's Isha, it is "Fajr (Tomorrow)" at tomorrow's
\* date and tomorrow's Fajr time.
C2_AfterIshaFallback ==
    (pc = "ucd" /\ resolved.at >= prayer_times["Isha"]) =>
        /\ resolved.by = "fallback"
        /\ next_prayer = FajrTomorrow
        /\ next_prayer_time =
             QDateTime(QDateOf(resolved.at) + 1, QTimeFromString(resolved.fajr))

\* C2 as amended: for a 'now' at or after the latest of the seven stored
\* timestamps (Midnight included), update_next_prayer selects no entry of
\* today's set; it fetches tomorrow's timings and, when that fetch answers
\* 200, stores "Fajr (Tomorrow)" at tomorrow's date and tomorrow's Fajr.
C2_AllPassedFallback ==
    /\ (JustResolved /\ resolved.by # "fallback" /\ AllPassed(resolved.at)) =>
          pc = "unp_fallback"
    /\ (pc = "ucd" /\ resolved.by = "fallback") =>
          /\ AllPassed(resolved.at)
          /\ has_next_prayer
          /\ next_prayer = FajrTomorrow
          /\ next_prayer_time =
               QDateTime(QDateOf(resolved.at) + 1, QTimeFromString(resolved.fajr))

C2_Witness ==
    /\ pc = "ucd"
    /\ resolved.by = "fallback"
    /\ resolved.at >= prayer_times["Isha"]
    /\ next_prayer = FajrTomorrow

\* C3: when today's fetch and the fetch of tomorrow's Fajr both answered
\* 200, the stored Midnight is Isha plus floor(gap / 2) seconds, gap being
\* the seconds from Isha to tomorrow's Fajr on the day after Isha's; with
\* Isha = 20:00 and Fajr = 05:00 that is 00:30 of the next day.
C3_MidnightMidpoint ==
    (JustResolved /\ tomorrow_resp.status = "ok") =>
        LET isha == prayer_times["Isha"]
            fajr == QDateTime(QDateOf(isha) + 1, QTimeFromString(tomorrow_resp.fajr))
            gap == (fajr - isha) \div MsPerSec
            half == (prayer_times["Midnight"] - isha) \div MsPerSec
        IN  /\ prayer_times["Midnight"] = isha + half * MsPerSec
            /\ 2 * half <= gap
            /\ gap < 2 * half + 2
            /\ (TimeOfDay(isha) = HMS(20, 0, 0, 0) /\ tomorrow_resp.fajr = <<5, 0>>) =>
                  prayer_times["Midnight"] =
                      QDateTime(QDateOf(isha) + 1, HMS(0, 30, 0, 0))

C3_Witness ==
    /\ pc = "ucd"
    /\ tomorrow_resp.status = "ok"
    /\ prayer_times["Isha"] = HMS(20, 0, 0, 0)
    /\ prayer_times["Midnight"] = QDateTime(1, HMS(0, 30, 0, 0))

\* Reading a countdown text back: the value of a run of digits, and the
\* text cut at its colons.
DigitVal(c) == CHOOSE d \in 0..9 : DigitChars[d + 1] = c
IsDigit(c) == \E d \in 0..9 : DigitChars[d + 1] = c

RECURSIVE ParseNum(_)
ParseNum(cs) ==
    IF cs = <<>> THEN 0
    ELSE 10 * ParseNum(SubSeq(cs, 1, Len(cs) - 1)) + DigitVal(cs[Len(cs)])

Colons(cs) == {i \in 1..Len(cs) : cs[i] = ":"}

\* The text is "Time Remaining: " and then HH:MM:SS for r seconds.
ShowsRemaining(text, r) ==
    /\ Len(text) >= 9
    /\ text[1] = "Time Remaining: "
    /\ LET cs == Tail(text)
           n == Len(cs)
       IN  /\ Colons(cs) = {n - 5, n - 2}
           /\ \A i \in (1..n) \ Colons(cs) : IsDigit(cs[i])
           /\ LET hh == SubSeq(cs, 1, n - 6)
                  mm == SubSeq(cs, n - 4, n - 3)
                  ss == SubSeq(cs, n - 1, n)
              IN  /\ Len(hh) >= 2
                  /\ (Len(hh) > 2 => hh[1] # "0")
                  /\ ParseNum(hh) = r \div 3600
                  /\ ParseNum(mm) = (r % 3600) \div 60
                  /\ ParseNum(ss) = r % 60
                  /\ ParseNum(hh) * 3600 + ParseNum(mm) * 60 + ParseNum(ss) = r

\* A step of update_countdown that finds a positive number of seconds.
CountdownStep ==
    /\ \/ pc = "idle" /\ pc' = "idle" /\ now' = now /\ now < DayMs
       \/ pc = "ucd" /\ pc' = "upt_display"
    /\ has_next_prayer
    /\ SecsTo(now, next_prayer_time) > 0

\* C4: every update_countdown that finds r > 0 seconds remaining sets the
\* countdown text to HH:MM:SS with HH = r div 3600, MM = (r mod 3600) div 60
\* and SS = r mod 60, zero-padded to two digits; 3661 gives 01:01:01.
C4_CountdownFormat ==
    [][CountdownStep =>
         /\ ShowsRemaining(countdown_label', SecsTo(now, next_prayer_time))
         /\ SecsTo(now, next_prayer_time) = 3661 =>
               countdown_label' = <<"Time Remaining: ", "0", "1", ":", "0", "1",
                                    ":", "0", "1">>]_vars

C4_Witness ==
    /\ pc = "idle"
    /\ SecsTo(now, next_prayer_time) = 3661
    /\ countdown_label = <<"Time Remaining: ", "0", "1", ":", "0", "1", ":",
                           "0", "1">>

\* C5 as stated: a tick of the countdown timer calls update_prayer_times
\* at most once, however the refresh ends.
C5_OneRefreshPerTick == handler = "tick" => refresh_calls <= 1

\* The state at line 93: the timers are set up, no time has passed.
Constructed == handler = "init" /\ pc = "update_data"

\* C6: the first interval of the daily timer is the number of seconds from
\* 'now' to the next local midnight (10 seconds at 23:59:50); every fire
\* of the timer calls update_prayer_times and update_quran_verse (and
\* update_hadith when show_hadith is set) and then starts the timer with
\* 86400 seconds, whatever the fetches answered; nothing else changes the
\* interval.
C6_DailySchedule ==
    /\ [](Constructed =>
            LET secs == TimeOfDay(now) \div MsPerSec
                delay == daily_interval \div MsPerSec
            IN  /\ daily_interval = delay * MsPerSec
                /\ delay \in 0..(SecsPerDay - 1)
                /\ (secs + delay) % SecsPerDay = 0
                /\ (TimeOfDay(now) = HMS(23, 59, 50, 0) => delay = 10))
    /\ []((handler = "daily" /\ pc = "done") =>
            /\ refresh_calls >= 1
            /\ verse_result # "none"
            /\ (show_hadith => hadith_result # "none"))
    /\ [][(handler = "daily" /\ pc = "done") =>
            daily_interval' = SecsPerDay * MsPerSec]_vars
    /\ [][daily_interval' # daily_interval =>
            (handler = "daily" /\ pc = "done")]_vars

C6_Witness ==
    /\ pc = "idle"
    /\ daily_interval = SecsPerDay * MsPerSec
    /\ last_today = "non200"
    /\ ~has_next_prayer

\* C7: a refresh that ends at the instant and with the answers of the
\* refresh before it leaves the NextPrayer and the PrayerTimeSet that the
\* refresh before it left.
C7_Idempotent ==
    (/\ pc = "upt_return"
     /\ depth = 1
     /\ run.clean
     /\ snap.valid
     /\ snap.at = now
     /\ snap.today = run.today
     /\ snap.tom = run.tom) =>
        /\ has_next_prayer = snap.has_next
        /\ next_prayer = snap.name
        /\ next_prayer_time = snap.time
        /\ prayer_times = snap.times

C7_Witness ==
    /\ pc = "upt_return"
    /\ depth = 1
    /\ run.clean
    /\ snap.valid
    /\ snap.at = now
    /\ snap.today = run.today
    /\ snap.tom = run.tom
    /\ has_next_prayer
    /\ next_prayer = "Fajr"

\* The event loop is idle and the latest fetch of today's set answered
\* with a code other than 200.
ProviderErrorIdle == pc = "idle" /\ last_today = "non200"

\* C8 as stated: once a refresh whose fetch of today's set answered with
\* a code other than 200 has returned to the event loop, NextPrayer is
\* unset and the labels show the error text and the dashes, which the
\* ticks of the countdown timer leave as they are.
C8_ProviderErrorIsIdle ==
    ProviderErrorIdle =>
        /\ ~has_next_prayer
        /\ next_prayer_label = LabelApiError
        /\ countdown_label = Dashes

\* C9: update_prayer_times is called again and again: from every state,
\* also with no NextPrayer after a failed fetch, a fetch of today's set is
\* issued later.
C9_AlwaysFetchesAgain == []<>(pc = "upt")

C9_Witness ==
    /\ pc = "upt"
    /\ handler = "daily"
    /\ ~has_next_prayer
    /\ last_today \in {"non200", "exc"}

\* C10: update_data always runs to its end: whatever the prayer fetches
\* do, update_prayer_times returns to update_data, update_quran_verse is
\* called, and update_hadith is called when show_hadith is set, whatever
\* update_quran_verse met.
C10_PartialFailure ==
    /\ []((pc = "done") =>
            /\ refresh_calls >= 1
            /\ verse_result # "none"
            /\ (show_hadith => hadith_result # "none"))
    /\ [][(pc = "upt_return" /\ depth = 1 /\ handler # "tick") =>
            pc' = "verse"]_vars
    /\ [][(handler \in {"init", "daily", "manual"} /\ pc' = "idle") =>
            pc = "done"]_vars

C10_Witness ==
    /\ pc = "done"
    /\ last_today = "exc"
    /\ ~has_next_prayer
    /\ verse_result = "failed"
    /\ hadith_result # "none"

\* C11 as stated: between two stores of NextPrayer, at most one tick of
\* the countdown timer finds the stored NextPrayer expired and calls
\* update_prayer_times; after a refresh that failed, no later tick fetches
\* again for that NextPrayer.
C11_OneRefreshPerExpiry == expiry_refresh # "again"

\* C12: whenever update_next_prayer has stored a NextPrayer, an entry of
\* today's set or "Fajr (Tomorrow)", the stored timestamp is strictly
\* after the 'now' that update_next_prayer read at line 396.
C12_StoredIsFuture ==
    pc = "ucd" =>
        /\ resolved.by \in {"scan", "fallback"}
        /\ has_next_prayer
        /\ next_prayer_time > resolved.at
        /\ (resolved.by = "fallback") = (next_prayer = FajrTomorrow)

\* A prayer time that is exactly 'now' is passed over: at Isha to the
\* millisecond the stored NextPrayer is Midnight.
C12_Witness ==
    /\ pc = "ucd"
    /\ resolved.by = "scan"
    /\ resolved.at = prayer_times["Isha"]
    /\ next_prayer = "Midnight"
    /\ next_prayer_time > resolved.at

\* update_prayer_times is about to return and the set it stored, with the
\* answer to its fetch of tomorrow's Fajr, is the one in self.prayer_times.
RefreshStoredSet ==
    pc = "upt_return" /\ last_today = "ok" /\ last_tomorrow # "none"

\* m is isha plus half (rounded down) of the seconds from isha to the time
\* fajr on the day after isha's.
IsMidpoint(isha, fajr, m) ==
    LET tomorrow_fajr == QDateTime(QDateOf(isha) + 1, QTimeFromString(fajr))
        gap == (tomorrow_fajr - isha) \div MsPerSec
        half == (m - isha) \div MsPerSec
    IN  /\ m = isha + half * MsPerSec
        /\ 2 * half <= gap
        /\ gap < 2 * half + 2

\* C13 as stated: the set a refresh leaves holds the seven names and its
\* Midnight is the midpoint of Isha and tomorrow's Fajr, also when the
\* fetch of tomorrow's Fajr answered another code than 200 or raised.
C13_MidnightAlwaysMidpoint ==
    RefreshStoredSet =>
        /\ has_prayer_times
        /\ DOMAIN prayer_times = PrayerSet
        /\ \E T \in Tables :
              IsMidpoint(prayer_times["Isha"], T.Fajr, prayer_times["Midnight"])

\* C13 as amended: the set a refresh leaves holds the seven names; its
\* Midnight is the midpoint of Isha and tomorrow's Fajr when the fetch of
\* tomorrow's Fajr answered 200, and the provider's Midnight on today's
\* date when that fetch answered another code or raised.
C13_MidpointOrProviderMidnight ==
    RefreshStoredSet =>
        /\ has_prayer_times
        /\ DOMAIN prayer_times = PrayerSet
        /\ last_tomorrow = "ok" =>
              \E T \in Tables :
                 IsMidpoint(prayer_times["Isha"], T.Fajr, prayer_times["Midnight"])
        /\ last_tomorrow \in {"non200", "exc"} =>
              \E T \in Tables :
                 prayer_times["Midnight"] =
                     QDateTime(QDateOf(prayer_times["Isha"]),
                               QTimeFromString(T.Midnight))

C13_Witness ==
    /\ RefreshStoredSet
    /\ last_tomorrow = "non200"
    /\ has_next_prayer
    /\ next_prayer = "Midnight"
    /\ TimeOfDay(prayer_times["Midnight"]) = HMS(23, 30, 0, 0)

\* C14 as stated: whenever the event loop is idle and the stored
\* NextPrayer is one of the seven names, its timestamp is the entry of
\* that name in the stored set and the highlighted prayer label, the only
\* one, is the label of that name.
C14_NextPrayerConsistent ==
    (pc = "idle" /\ has_next_prayer /\ next_prayer \in PrayerSet) =>
        /\ next_prayer_time = prayer_times[next_prayer]
        /\ \A p \in PrayerSet : prayer_labels.bold[p] = (p = next_prayer)

====
